---- MODULE Spec2Model ----
(***************************************************************************)
(* Model of the automated book publication pipeline.                       *)
(*                                                                         *)
(* The repository holds two orchestrators over two stores:                 *)
(*   "process"  : main.py -> PublicationProcess -> VersionManager          *)
(*   "workflow" : PublisherWorkflow -> ContentStore                        *)
(* A behaviour fixes one of them in Init (impl) and then runs one          *)
(* automatic run over a harvested list of items, one asynchronous task per *)
(* item, together with a bounded number of refine requests.  A task steps  *)
(* from one await to the next; the tasks interleave at the awaits.  The    *)
(* collaborators shipped with the repository never suspend, so the runs    *)
(* in which one task finishes before the next starts are among the         *)
(* behaviours; a collaborator that does suspend gives the others.          *)
(*                                                                         *)
(* The engine is taken to accept every metadata record the code hands it.  *)
(*                                                                         *)
(* Left out: the datetime.now() stamps the stores put into metadata and    *)
(* the processing times the results carry; no code reads them back.        *)
(*                                                                         *)
(* The persistence engine (a ChromaDB collection) is modelled by what the  *)
(* code relies on: a map from id to (document, metadata) with upsert and   *)
(* get by id, and query(query_texts=[q], where=..., n_results=n), which    *)
(* returns ONE result list per query text, holding the matching records    *)
(* ordered by embedding distance between the document and q.               *)
(***************************************************************************)
EXTENDS Integers, Sequences, FiniteSets, TLC

(***************************************************************************)
(* Bounds                                                                  *)
(***************************************************************************)
NItems == 2
MaxClock == 1
MaxRefines == 2
RefineItems == 1
MaxCalls == 3
MaxRLCalls == 2
MaxCandidates == 3
MaxRanked == 2
MaxPages == 2

(***************************************************************************)
(* Values                                                                  *)
(***************************************************************************)
None == "None"
NoId == <<>>

Impls == {"process", "workflow"}

\* Pages the harvester can return: two pages with the same text under
\* different chapter numbers, and a page with the same chapter number as the
\* first (another book of the same work) whose text extraction came out empty.
ItemPool ==
    { [url |-> "u1", title |-> "t1", content |-> "a", chapter_number |-> 1, screenshot_path |-> "s1"],
      [url |-> "u2", title |-> "t2", content |-> "a", chapter_number |-> 2, screenshot_path |-> "s2"],
      [url |-> "u3", title |-> "t3", content |-> "",  chapter_number |-> 1, screenshot_path |-> "s3"] }

\* Feedback texts a caller can supply to refine.
Feedbacks == {"f1", "f2"}

\* len(content) of the page texts
StrLen(s) == IF s = "" THEN 0 ELSE 1

VARIABLES
    impl,                 \* which orchestrator/store pair this behaviour runs
    web,                  \* the pages the harvester returns when the run asks for them
    clock,                \* int(time.time()): the wall clock in whole seconds
    content_collection,   \* VersionManager.content_collection / ContentStore.chapters_collection
    version_collection,   \* VersionManager.version_collection / ContentStore.versions_collection
    metadata_collection,  \* VersionManager.metadata_collection / ContentStore.metadata_collection
    content_items,        \* the harvested list of the run
    run,                  \* the run coroutine: its position, what it returned, metrics
    task,                 \* one coroutine per harvested item
    refine,               \* the refine requests issued so far
    calls,                \* history: per (content id, stage), how many version writes returned
    last_inserted,        \* history: per (content id, stage), the id the last version write returned
    api,                  \* history: the calls a client made on the store itself, with what they returned
    background_task,      \* the task POST /process/start hands to BackgroundTasks: its position and process_id
    active_processes,     \* main.active_processes: the registry GET /process/{process_id} reads
    q_values,             \* RLSearchAlgorithm.q_values: state key -> action -> value
    rl_calls,             \* the callers of the RLSearchAlgorithm instance and what they got back
    harvest               \* a harvester call followed step by step: the links it meets, its loop variables

vars == << impl, web, clock, content_collection, version_collection,
           metadata_collection, content_items, run, task, refine, calls, last_inserted,
           api, background_task, active_processes, q_values, rl_calls, harvest >>

(***************************************************************************)
(* The persistence substrate: a collection is a function id -> record      *)
(***************************************************************************)
EmptyCollection == << >>

\* collection.upsert(ids=[id], documents=[doc], metadatas=[meta])
Upsert(coll, id, doc, meta) ==
    [x \in (DOMAIN coll) \cup {id} |->
        IF x = id THEN [document |-> doc, metadata |-> meta] ELSE coll[x]]

\* collection.get(ids=[id]): the list of matching ids (empty or one element)
GetIds(coll, id) == IF id \in DOMAIN coll THEN <<id>> ELSE << >>

\* Distance between the embedding of a stored document and that of the query
\* text.  It is a function of the document's text alone; nothing in it depends
\* on when the document was stored.
EmbedDist(doc) ==
    CASE doc = "x" -> 1
      [] doc = "y" -> 2
      [] OTHER     -> 3

\* The ids a where-filter on (content id key, version_type) matches.
Matching(coll, idkey, cid, vtype) ==
    {v \in DOMAIN coll : /\ coll[v].metadata[idkey] = cid
                         /\ coll[v].metadata.version_type = vtype}

\* collection.query(query_texts=[q], where=..., n_results=1)["ids"][0]: the
\* possible result lists.  The nearest matching document comes first; among
\* documents at the same distance the index decides.
QueryNearest(coll, idkey, cid, vtype) ==
    LET m == Matching(coll, idkey, cid, vtype)
    IN  IF m = {} THEN { << >> }
        ELSE { <<v>> : v \in {w \in m : \A u \in m :
                                EmbedDist(coll[w].document) <= EmbedDist(coll[u].document)} }

(***************************************************************************)
(* storage/version_manager.py : VersionManager                             *)
(***************************************************************************)
\* hashlib.sha256(content.encode()).hexdigest()[:12]
ContentHash(content) == << "sha256", content >>

\* f"content_{timestamp}_{content_hash}"
generate_content_fingerprint(content) == << "content", clock, ContentHash(content) >>

\* f"{content_id}_{version_type}_{timestamp}"
generate_version_id(content_id, version_type) == << content_id, version_type, clock >>

source_metadata_of(content_data) ==
    [ title           |-> content_data.title,
      chapter_number  |-> content_data.chapter_number,
      source_url      |-> content_data.url,
      screenshot_path |-> content_data.screenshot_path,
      content_type    |-> "source" ]

\* store_source_content: the content collection after the call (the id it
\* returns is generate_content_fingerprint(content_data.content)).
store_source_content(cc, content_data) ==
    Upsert(cc, generate_content_fingerprint(content_data.content),
           content_data.content, source_metadata_of(content_data))

\* The metadata store_content_version writes: the base fields, then
\* metadata.update(version_metadata).
version_metadata_of(cc, content_id, version_type, version_metadata) ==
    LET found == GetIds(cc, content_id) /= << >>
    IN  version_metadata @@
        [ content_id     |-> content_id,
          version_type   |-> version_type,
          chapter_number |-> IF found THEN cc[content_id].metadata.chapter_number ELSE None,
          title          |-> IF found THEN cc[content_id].metadata.title ELSE None ]

\* store_content_version: the version collection after the call (the id it
\* returns is generate_version_id(content_id, version_type)).
store_content_version(vc, cc, content_id, version_content, version_type, version_metadata) ==
    Upsert(vc, generate_version_id(content_id, version_type), version_content,
           version_metadata_of(cc, content_id, version_type, version_metadata))

\* get_content: None when the id is absent
VM_get_content(cc, content_id) ==
    IF GetIds(cc, content_id) = << >> THEN << >>
    ELSE [ id |-> content_id, content |-> cc[content_id].document,
           metadata |-> cc[content_id].metadata ]

\* get_latest_version were its query to leave the version_type out of the
\* filter: the nearest version of the content, whatever its stage
VM_get_latest_version_of_any_stage(vc, content_id, version_type) ==
    LET m    == { v \in DOMAIN vc : vc[v].metadata.content_id = content_id }
        near == { w \in m : \A u \in m : EmbedDist(vc[w].document) <= EmbedDist(vc[u].document) }
    IN  IF m = {} THEN { << >> }
        ELSE { [ id |-> w, content |-> vc[w].document, metadata |-> vc[w].metadata ] : w \in near }

\* get_latest_version: the set of values the call can return; << >> is None.
VM_get_latest_version(vc, content_id, version_type) ==
    { IF ids = << >> THEN << >>
      ELSE [ id |-> ids[1], content |-> vc[ids[1]].document, metadata |-> vc[ids[1]].metadata ]
      : ids \in QueryNearest(vc, "content_id", content_id, version_type) }

(***************************************************************************)
(* The generation services and the processors that wrap them               *)
(***************************************************************************)
\* What a call of an external model can do: answer with a text, or raise.
Responses == {"x", " y "}
ModelOutcomes == { [kind |-> "ok", text |-> t] : t \in Responses } \cup
                 { [kind |-> "raise", text |-> None] }

\* re.sub(r'^(REWRITTEN TEXT:|TRANSFORMED TEXT:)', '', text).strip()
CleanResponse(text) == IF text = " y " THEN "y" ELSE text

\* GeminiTransformer.transform_content: every exception of the model call is
\* caught and returned as an error payload.
GeminiTransformer_transform_content(outcome) ==
    IF outcome.kind = "ok"
    THEN [ transformed_content  |-> CleanResponse(outcome.text),
           model                |-> "gemini-pro",
           transformation_style |-> "creative" ]
    ELSE [ error |-> "Transformation failed", model |-> "gemini-pro" ]

\* HuggingFaceEvaluator: the scores the similarity model can lead to
Scores == {"high", "low"}
EvalOutcomes == { [kind |-> "ok", score |-> sc] : sc \in Scores } \cup
                { [kind |-> "raise", score |-> None] }

\* HuggingFaceEvaluator._generate_feedback: a text naming the chapter title and
\* the score
generate_feedback(chapter_title, score) ==
    CASE chapter_title = "t1" /\ score = "high" -> "review t1 high"
      [] chapter_title = "t1" /\ score = "low"  -> "review t1 low"
      [] chapter_title = "t2" /\ score = "high" -> "review t2 high"
      [] chapter_title = "t2" /\ score = "low"  -> "review t2 low"
      [] chapter_title = "t3" /\ score = "high" -> "review t3 high"
      [] OTHER                                  -> "review t3 low"

\* HuggingFaceEvaluator.transform_content: an error payload when no original
\* content came with the parameters (the model is then not called); an
\* exception of the similarity model is not caught: the value with the key
\* "raised" stands for the call raising.
HuggingFaceEvaluator_transform_content(input_text, params, outcome) ==
    IF params.original_content = ""
    THEN [ error |-> "Original content not provided for comparison" ]
    ELSE IF outcome.kind = "raise" THEN [ raised |-> "Exception" ]
    ELSE [ processed_content |-> generate_feedback(params.chapter_title, outcome.score),
           evaluation        |-> outcome.score,
           model             |-> "huggingface-evaluator" ]

\* "error" in payload
HasError(payload) == "error" \in DOMAIN payload

\* the call raised instead of returning
Raised(payload) == "raised" \in DOMAIN payload

(***************************************************************************)
(* The state after construction                                            *)
(***************************************************************************)
\* What the harvester can return: up to NItems pages, in any order, a page
\* possibly more than once (a next link may lead back).
Harvests == UNION { [1..n -> ItemPool] : n \in 0..NItems }

NoResult == << >>

\* the pages the harvester calls followed step by step can meet
Urls == {"u1", "u2", "u3"}

\* no harvester call is being followed
NoHarvest ==
    [ pc |-> "idle", links |-> [u \in Urls |-> None], current_url |-> None,
      harvested_items |-> << >>, page_count |-> 0 ]

Init ==
    /\ impl \in Impls
    /\ web \in Harvests
    /\ clock = 0
    /\ content_collection = EmptyCollection
    /\ version_collection = EmptyCollection
    /\ metadata_collection = EmptyCollection
    /\ content_items = << >>
    /\ run = [ pc |-> "init", id |-> NoId, result |-> NoResult,
               metrics |-> [chapters_processed |-> 0, total_characters |-> 0] ]
    /\ task = << >>
    /\ refine = << >>
    /\ calls = << >>
    /\ last_inserted = << >>
    /\ api = << >>
    /\ background_task = [ pc |-> "none", process_id |-> NoId, max_chapters |-> 0 ]
    /\ active_processes = << >>
    /\ q_values = << >>
    /\ rl_calls = << >>
    /\ harvest = NoHarvest

\* History: a version write for `pair` returned `id`.
RecordCall(pair, id) ==
    /\ calls' = [p \in (DOMAIN calls) \cup {pair} |->
                    (IF p \in DOMAIN calls THEN calls[p] ELSE 0) + (IF p = pair THEN 1 ELSE 0)]
    /\ last_inserted' = [p \in (DOMAIN last_inserted) \cup {pair} |->
                    IF p = pair THEN id ELSE last_inserted[p]]

\* time.time() moves on
Tick ==
    /\ clock < MaxClock
    /\ clock' = clock + 1
    /\ UNCHANGED << impl, harvest, api, background_task, active_processes, q_values, rl_calls, web, content_collection, version_collection,
                    metadata_collection, content_items, run, task, refine, calls, last_inserted >>

(***************************************************************************)
(* workflow/publication_process.py : PublicationProcess                    *)
(***************************************************************************)
NewProcessTask(item) ==
    [ pc |-> "ready", item |-> item, content_id |-> NoId,
      transform_result |-> NoResult, transform_version_id |-> NoId,
      eval_version_id |-> NoId, result |-> NoResult,
      inflight |-> {}, invoked |-> << >>, wrote |-> {}, failed |-> {} ]

\* run_publication_process were it to go on without the `if not content_items`
\* test: asyncio.gather over whatever was harvested
run_publication_process_begin_without_test ==
    /\ impl = "process"
    /\ run.pc = "init"
    /\ content_items' = web
    /\ run' = [run EXCEPT !.pc = "gather", !.id = << "process", clock, "uuid" >>]
    /\ task' = [i \in 1..Len(web) |-> NewProcessTask(web[i])]
    /\ UNCHANGED << impl, harvest, api, background_task, active_processes, q_values, rl_calls, web, clock,
                    content_collection, version_collection,
                    metadata_collection, refine, calls, last_inserted >>

\* run_publication_process up to asyncio.gather: harvest, return failed on an
\* empty harvest, else create one coroutine per item and await them all.
run_publication_process_begin ==
    /\ impl = "process"
    /\ run.pc = "init"
    \* called by run_cli, or by the background task once it has registered itself
    /\ background_task.pc \in {"none", "running"}
    /\ \E harvested \in {web} :
        /\ content_items' = harvested
        /\ IF harvested = << >>
           THEN /\ run' = [run EXCEPT !.pc = "returned",
                                      !.id = << "process", clock, "uuid" >>,
                                      !.result = [status |-> "failed", error |-> "No content found"]]
                /\ task' = task
           ELSE /\ run' = [run EXCEPT !.pc = "gather", !.id = << "process", clock, "uuid" >>]
                /\ task' = [i \in 1..Len(harvested) |-> NewProcessTask(harvested[i])]
    /\ UNCHANGED << impl, harvest, api, background_task, active_processes, q_values, rl_calls, web, clock, content_collection, version_collection,
                    metadata_collection, refine, calls, last_inserted >>

\* process_content_item, from its start to the await of the transformer
process_content_item_start(i) ==
    /\ impl = "process"
    /\ i \in DOMAIN task
    /\ task[i].pc = "ready"
    /\ LET content_data == task[i].item
           content_id   == generate_content_fingerprint(content_data.content)
       IN  /\ content_collection' = store_source_content(content_collection, content_data)
           /\ task' = [task EXCEPT ![i] =
                  [@ EXCEPT !.pc = "transform",
                            !.content_id = content_id,
                            !.inflight = @ \cup {"transform"},
                            !.invoked = Append(@, [name |-> "transform", input |-> content_data.content])]]
    /\ UNCHANGED << impl, harvest, api, background_task, active_processes, q_values, rl_calls, web, clock, version_collection, metadata_collection,
                    content_items, run, refine, calls, last_inserted >>

\* process_content_item, from the transformer's return to the await of the
\* evaluator, or to the failed result
process_content_item_transformed(i) ==
    /\ impl = "process"
    /\ i \in DOMAIN task
    /\ task[i].pc = "transform"
    /\ \E outcome \in ModelOutcomes :
        LET transform_result == GeminiTransformer_transform_content(outcome)
            content_id == task[i].content_id
            transform_version_id == generate_version_id(content_id, "transformed")
        IN  IF ~HasError(transform_result)
            THEN /\ version_collection' =
                        store_content_version(version_collection, content_collection, content_id,
                            transform_result.transformed_content, "transformed",
                            [ model |-> transform_result.model,
                              transformation_style |-> transform_result.transformation_style ])
                 /\ RecordCall(<< content_id, "transformed" >>, transform_version_id)
                 /\ task' = [task EXCEPT ![i] =
                        [@ EXCEPT !.pc = "evaluate",
                                  !.transform_result = transform_result,
                                  !.transform_version_id = transform_version_id,
                                  !.wrote = @ \cup {transform_version_id},
                                  !.inflight = (@ \ {"transform"}) \cup {"evaluate"},
                                  !.invoked = Append(@, [name |-> "evaluate",
                                                         input |-> transform_result.transformed_content])]]
            ELSE /\ task' = [task EXCEPT ![i] =
                        [@ EXCEPT !.pc = "done",
                                  !.transform_result = transform_result,
                                  !.inflight = @ \ {"transform"},
                                  !.failed = @ \cup {"transform"},
                                  !.result = [ content_id |-> content_id,
                                               error      |-> transform_result.error,
                                               status     |-> "failed" ]]]
                 /\ UNCHANGED << version_collection, calls, last_inserted >>
    /\ UNCHANGED << impl, harvest, api, background_task, active_processes, q_values, rl_calls, web, clock, content_collection, metadata_collection,
                    content_items, run, refine >>

\* process_content_item were it to write the metrics it computed from the
\* values they had when the run began
process_content_item_evaluated_from_stale_metrics(i) ==
    /\ impl = "process"
    /\ i \in DOMAIN task
    /\ task[i].pc = "evaluate"
    /\ \E outcome \in EvalOutcomes :
        LET content_data == task[i].item
            content_id   == task[i].content_id
            eval_params  == [ chapter_title |-> content_data.title,
                              original_content |-> content_data.content ]
            eval_result  == HuggingFaceEvaluator_transform_content(
                                task[i].transform_result.transformed_content, eval_params, outcome)
            stored_id    == generate_version_id(content_id, "evaluation")
        IN  IF Raised(eval_result)
            THEN /\ task' = [task EXCEPT ![i] =
                        [@ EXCEPT !.pc = "raised", !.inflight = @ \ {"evaluate"},
                                  !.failed = @ \cup {"evaluate"}]]
                 /\ UNCHANGED << version_collection, calls, last_inserted, run >>
            ELSE /\ IF ~HasError(eval_result)
                    THEN /\ version_collection' =
                                store_content_version(version_collection, content_collection, content_id,
                                    eval_result.processed_content, "evaluation",
                                    [ model |-> eval_result.model,
                                      evaluation_scores |-> eval_result.evaluation ])
                         /\ RecordCall(<< content_id, "evaluation" >>, stored_id)
                    ELSE UNCHANGED << version_collection, calls, last_inserted >>
                 /\ run' = [run EXCEPT
                        !.metrics.chapters_processed = 0 + 1,
                        !.metrics.total_characters = 0 + StrLen(content_data.content)]
                 /\ LET eval_version_id == IF ~HasError(eval_result) THEN stored_id ELSE NoId
                    IN task' = [task EXCEPT ![i] =
                        [@ EXCEPT !.pc = "done",
                                  !.eval_version_id = eval_version_id,
                                  !.wrote = IF ~HasError(eval_result) THEN @ \cup {stored_id} ELSE @,
                                  !.failed = IF HasError(eval_result) THEN @ \cup {"evaluate"} ELSE @,
                                  !.inflight = @ \ {"evaluate"},
                                  !.result = [ content_id |-> content_id,
                                               transform_version_id |-> task[i].transform_version_id,
                                               eval_version_id |-> eval_version_id,
                                               status |-> "success" ]]]
    /\ UNCHANGED << impl, harvest, api, background_task, active_processes, q_values, rl_calls, web, clock, content_collection, metadata_collection,
                    content_items, refine >>

\* process_content_item, from the evaluator's return to the end
process_content_item_evaluated(i) ==
    /\ impl = "process"
    /\ i \in DOMAIN task
    /\ task[i].pc = "evaluate"
    /\ \E outcome \in EvalOutcomes :
        LET content_data == task[i].item
            content_id   == task[i].content_id
            eval_params  == [ chapter_title |-> content_data.title,
                              original_content |-> content_data.content ]
            eval_result  == HuggingFaceEvaluator_transform_content(
                                task[i].transform_result.transformed_content, eval_params, outcome)
            stored_id    == generate_version_id(content_id, "evaluation")
        IN  IF Raised(eval_result)
            THEN /\ task' = [task EXCEPT ![i] =
                        [@ EXCEPT !.pc = "raised", !.inflight = @ \ {"evaluate"},
                                  !.failed = @ \cup {"evaluate"}]]
                 /\ UNCHANGED << version_collection, calls, last_inserted, run >>
            ELSE /\ IF ~HasError(eval_result)
                    THEN /\ version_collection' =
                                store_content_version(version_collection, content_collection, content_id,
                                    eval_result.processed_content, "evaluation",
                                    [ model |-> eval_result.model,
                                      evaluation_scores |-> eval_result.evaluation ])
                         /\ RecordCall(<< content_id, "evaluation" >>, stored_id)
                    ELSE UNCHANGED << version_collection, calls, last_inserted >>
                 /\ run' = [run EXCEPT
                        !.metrics.chapters_processed = @ + 1,
                        !.metrics.total_characters = @ + StrLen(content_data.content)]
                 /\ LET eval_version_id == IF ~HasError(eval_result) THEN stored_id ELSE NoId
                    IN task' = [task EXCEPT ![i] =
                        [@ EXCEPT !.pc = "done",
                                  !.eval_version_id = eval_version_id,
                                  !.wrote = IF ~HasError(eval_result) THEN @ \cup {stored_id} ELSE @,
                                  !.failed = IF HasError(eval_result) THEN @ \cup {"evaluate"} ELSE @,
                                  !.inflight = @ \ {"evaluate"},
                                  !.result = [ content_id |-> content_id,
                                               transform_version_id |-> task[i].transform_version_id,
                                               eval_version_id |-> eval_version_id,
                                               status |-> "success" ]]]
    /\ UNCHANGED << impl, harvest, api, background_task, active_processes, q_values, rl_calls, web, clock, content_collection, metadata_collection,
                    content_items, refine >>

\* VersionManager.store_project_metadata
store_project_metadata(mc, metadata_id, data) ==
    Upsert(mc, metadata_id, data, [type |-> "process"])

\* run_publication_process were it to collect the item results last task
\* first instead of in the order of the harvested list
run_publication_process_end_in_reverse ==
    /\ impl = "process"
    /\ run.pc = "gather"
    /\ \A i \in DOMAIN task : task[i].pc = "done"
    /\ LET results == [i \in DOMAIN task |-> task[Len(task) + 1 - i].result]
       IN  /\ metadata_collection' = Upsert(metadata_collection, run.id,
                                            [ processing_results |-> results ], [type |-> "process"])
           /\ run' = [run EXCEPT !.pc = "returned",
                                 !.result = [ status |-> "success",
                                              process_id |-> run.id,
                                              content_count |-> Len(content_items),
                                              results |-> results,
                                              metrics |-> run.metrics ]]
    /\ UNCHANGED << impl, harvest, api, background_task, active_processes, q_values, rl_calls, web, clock,
                    content_collection, version_collection,
                    content_items, task, refine, calls, last_inserted >>

\* run_publication_process after asyncio.gather returned every result: compile
\* the record, persist it, return success
run_publication_process_end ==
    /\ impl = "process"
    /\ run.pc = "gather"
    /\ \A i \in DOMAIN task : task[i].pc = "done"
    /\ LET results == [i \in DOMAIN task |-> task[i].result]
           process_results == [ process_id |-> run.id,
                                content_count |-> Len(content_items),
                                processing_results |-> results,
                                metrics |-> run.metrics ]
       IN  /\ metadata_collection' = store_project_metadata(metadata_collection, run.id, process_results)
           /\ run' = [run EXCEPT !.pc = "returned",
                                 !.result = [ status |-> "success",
                                              process_id |-> run.id,
                                              content_count |-> Len(content_items),
                                              results |-> results,
                                              metrics |-> run.metrics ]]
    /\ UNCHANGED << impl, harvest, api, background_task, active_processes, q_values, rl_calls, web, clock, content_collection, version_collection,
                    content_items, task, refine, calls, last_inserted >>

\* asyncio.gather without return_exceptions: the first exception of a task is
\* raised out of the await at once; the other tasks are not cancelled.
gather_raises ==
    /\ run.pc = "gather"
    /\ \E i \in DOMAIN task : task[i].pc = "raised"
    /\ run' = [run EXCEPT !.pc = "raised"]
    /\ UNCHANGED << impl, harvest, api, background_task, active_processes, q_values, rl_calls, web, clock, content_collection, version_collection,
                    metadata_collection, content_items, task, refine, calls, last_inserted >>

(***************************************************************************)
(* storage/content_store.py : ContentStore                                 *)
(***************************************************************************)
\* f"chapter_{chapter_data['chapter_number']}"
chapter_id_of(chapter_data) == << "chapter", chapter_data.chapter_number >>

\* store_original_chapter: the chapters collection after the call
store_original_chapter(cc, chapter_data) ==
    Upsert(cc, chapter_id_of(chapter_data), chapter_data.content,
           [ title           |-> chapter_data.title,
             chapter_number  |-> chapter_data.chapter_number,
             url             |-> chapter_data.url,
             screenshot_path |-> chapter_data.screenshot_path,
             type            |-> "original" ])

\* get_version_count: len(results["ids"]) of a query with one query text.  The
\* result holds one list per query text, so its length is the number of query
\* texts whatever the filter matches.
get_version_count(vc, chapter_id, version_type) ==
    Len(<< Matching(vc, "chapter_id", chapter_id, version_type) >>)

\* f"{chapter_id}_v{version_type}_{version_count + 1}"
chapter_version_id(vc, chapter_id, version_type) ==
    << chapter_id, "v", version_type, get_version_count(vc, chapter_id, version_type) + 1 >>

\* store_chapter_version: the versions collection after the call
store_chapter_version(vc, cc, chapter_id, content, version_type, metadata) ==
    LET found == GetIds(cc, chapter_id) /= << >>
        version_count == get_version_count(vc, chapter_id, version_type)
    IN  Upsert(vc, chapter_version_id(vc, chapter_id, version_type), content,
               metadata @@
               [ chapter_id     |-> chapter_id,
                 chapter_number |-> IF found THEN cc[chapter_id].metadata.chapter_number ELSE None,
                 title          |-> IF found THEN cc[chapter_id].metadata.title ELSE None,
                 version_type   |-> version_type,
                 version_number |-> version_count + 1 ])

\* get_chapter: None (<< >>) when the id is absent
get_chapter(cc, chapter_id) ==
    IF GetIds(cc, chapter_id) = << >> THEN << >>
    ELSE [ id |-> chapter_id, content |-> cc[chapter_id].document,
           metadata |-> cc[chapter_id].metadata ]

\* ContentStore.get_latest_version: the set of values the call can return.
\* results["documents"] is a list holding one list, so neither
\* `not results["documents"]` nor `len(results["documents"]) == 0` is ever
\* true, and results["ids"][0][0] raises IndexError when nothing matches.
CS_get_latest_version(vc, chapter_id, version_type) ==
    { IF ids = << >> THEN [ raised |-> "IndexError" ]
      ELSE [ id |-> ids[1], content |-> vc[ids[1]].document, metadata |-> vc[ids[1]].metadata ]
      : ids \in QueryNearest(vc, "chapter_id", chapter_id, version_type) }

(***************************************************************************)
(* ai_agents : GeminiAgent.process / OpenAIAgent.process                   *)
(***************************************************************************)
\* The agents return the model's text as it is; an exception of the model
\* call is not caught.
Agent_process(model_name, outcome) ==
    IF outcome.kind = "raise" THEN [ raised |-> "Exception" ]
    ELSE [ processed_content |-> outcome.text, model |-> model_name ]

(***************************************************************************)
(* workflow/publisher_workflow.py : PublisherWorkflow                      *)
(***************************************************************************)
NewWorkflowTask(item) ==
    [ pc |-> "ready", item |-> item, chapter_id |-> NoId,
      writer_result |-> NoResult, writer_version_id |-> NoId,
      reviewer_result |-> NoResult, reviewer_version_id |-> NoId,
      result |-> NoResult,
      inflight |-> {}, invoked |-> << >>, wrote |-> {}, failed |-> {} ]

\* run_workflow up to asyncio.gather
run_workflow_begin ==
    /\ impl = "workflow"
    /\ run.pc = "init"
    /\ \E chapters \in {web} :
        /\ content_items' = chapters
        /\ IF chapters = << >>
           THEN /\ run' = [run EXCEPT !.pc = "returned",
                                      !.id = << "workflow", clock, "uuid" >>,
                                      !.result = [status |-> "failed", error |-> "No chapters found"]]
                /\ task' = task
           ELSE /\ run' = [run EXCEPT !.pc = "gather", !.id = << "workflow", clock, "uuid" >>]
                /\ task' = [i \in 1..Len(chapters) |-> NewWorkflowTask(chapters[i])]
    /\ UNCHANGED << impl, harvest, api, background_task, active_processes, q_values, rl_calls, web, clock, content_collection, version_collection,
                    metadata_collection, refine, calls, last_inserted >>

\* process_chapter, from its start to the await of the writer
process_chapter_start(i) ==
    /\ impl = "workflow"
    /\ i \in DOMAIN task
    /\ task[i].pc = "ready"
    /\ LET chapter_data == task[i].item
       IN  /\ content_collection' = store_original_chapter(content_collection, chapter_data)
           /\ task' = [task EXCEPT ![i] =
                  [@ EXCEPT !.pc = "writer",
                            !.chapter_id = chapter_id_of(chapter_data),
                            !.inflight = @ \cup {"writer"},
                            !.invoked = Append(@, [name |-> "writer", input |-> chapter_data.content])]]
    /\ UNCHANGED << impl, harvest, api, background_task, active_processes, q_values, rl_calls, web, clock, version_collection, metadata_collection,
                    content_items, run, refine, calls, last_inserted >>

\* What the three later steps of process_chapter share: the agent awaited at
\* `stage` returns; an exception leaves the coroutine; otherwise the text is
\* stored as `version_type` and the next agent is called on the writer's text.
process_chapter_step(i, stage, model_name, version_type, next_stage) ==
    /\ impl = "workflow"
    /\ i \in DOMAIN task
    /\ task[i].pc = stage
    /\ \E outcome \in ModelOutcomes :
        LET agent_result == Agent_process(model_name, outcome)
            chapter_id   == task[i].chapter_id
            version_id   == chapter_version_id(version_collection, chapter_id, version_type)
            writer_result == IF stage = "writer" THEN agent_result ELSE task[i].writer_result
        IN  IF Raised(agent_result)
            THEN /\ task' = [task EXCEPT ![i] =
                        [@ EXCEPT !.pc = "raised", !.inflight = @ \ {stage},
                                  !.failed = @ \cup {stage}]]
                 /\ UNCHANGED << version_collection, calls, last_inserted >>
            ELSE /\ version_collection' =
                        store_chapter_version(version_collection, content_collection, chapter_id,
                            agent_result.processed_content, version_type,
                            [ model |-> agent_result.model ])
                 /\ RecordCall(<< chapter_id, version_type >>, version_id)
                 /\ task' = [task EXCEPT ![i] =
                        [@ EXCEPT
                            !.pc = next_stage,
                            !.writer_result = writer_result,
                            !.writer_version_id = IF stage = "writer" THEN version_id ELSE @,
                            !.reviewer_result = IF stage = "reviewer" THEN agent_result ELSE @,
                            !.reviewer_version_id = IF stage = "reviewer" THEN version_id ELSE @,
                            !.wrote = @ \cup {version_id},
                            !.inflight = IF next_stage = "done" THEN @ \ {stage}
                                         ELSE (@ \ {stage}) \cup {next_stage},
                            !.invoked = IF next_stage = "done" THEN @
                                        ELSE Append(@, [name |-> next_stage,
                                                        input |-> writer_result.processed_content]),
                            !.result = IF next_stage = "done"
                                       THEN [ chapter_id |-> chapter_id,
                                              writer_version_id |-> task[i].writer_version_id,
                                              reviewer_version_id |-> task[i].reviewer_version_id,
                                              editor_version_id |-> version_id ]
                                       ELSE @ ]]
    /\ UNCHANGED << impl, harvest, api, background_task, active_processes, q_values, rl_calls, web, clock, content_collection, metadata_collection,
                    content_items, run, refine >>

\* process_chapter were it to hand the writer's text to the editor at once,
\* without the review in between
process_chapter_written_without_review(i) ==
    process_chapter_step(i, "writer", "gemini-pro", "rewritten", "editor")

\* process_chapter, from the writer's return to the await of the reviewer
process_chapter_written(i) ==
    process_chapter_step(i, "writer", "gemini-pro", "rewritten", "reviewer")

\* process_chapter, from the reviewer's return to the await of the editor
process_chapter_reviewed(i) ==
    process_chapter_step(i, "reviewer", "gpt-3.5-turbo", "reviewed", "editor")

\* process_chapter, from the editor's return to the end
process_chapter_edited(i) ==
    process_chapter_step(i, "editor", "gpt-4", "edited", "done")

\* ContentStore.store_workflow_metadata
store_workflow_metadata(mc, workflow_id, metadata) ==
    Upsert(mc, workflow_id, metadata, [type |-> "workflow"])

\* run_workflow after asyncio.gather returned every result
run_workflow_end ==
    /\ impl = "workflow"
    /\ run.pc = "gather"
    /\ \A i \in DOMAIN task : task[i].pc = "done"
    /\ LET results == [i \in DOMAIN task |-> task[i].result]
           workflow_metadata == [ workflow_id |-> run.id,
                                  chapter_count |-> Len(content_items),
                                  chapter_results |-> results ]
       IN  /\ metadata_collection' = store_workflow_metadata(metadata_collection, run.id, workflow_metadata)
           /\ run' = [run EXCEPT !.pc = "returned",
                                 !.result = [ status |-> "success",
                                              workflow_id |-> run.id,
                                              chapter_count |-> Len(content_items),
                                              results |-> results ]]
    /\ UNCHANGED << impl, harvest, api, background_task, active_processes, q_values, rl_calls, web, clock, content_collection, version_collection,
                    content_items, task, refine, calls, last_inserted >>

WorkflowNext ==
    \/ run_workflow_begin
    \/ \E i \in 1..NItems : process_chapter_start(i)
    \/ \E i \in 1..NItems : process_chapter_written(i)
    \/ \E i \in 1..NItems : process_chapter_reviewed(i)
    \/ \E i \in 1..NItems : process_chapter_edited(i)
    \/ run_workflow_end

ProcessNext ==
    \/ run_publication_process_begin
    \/ \E i \in 1..NItems : process_content_item_start(i)
    \/ \E i \in 1..NItems : process_content_item_transformed(i)
    \/ \E i \in 1..NItems : process_content_item_evaluated(i)
    \/ run_publication_process_end

(***************************************************************************)
(* Refinement on request                                                   *)
(***************************************************************************)
\* The stage names the orchestrators store versions under
Stages == {"transformed", "evaluation", "rewritten", "reviewed", "edited", "refined"}

\* Content ids a caller can name: the stored ones and one that is not stored.
UnknownId == << "unknown" >>
RequestableIds == (DOMAIN content_collection) \cup {UnknownId}

\* ContentFeedback.reviewer_name
Reviewers == {"anonymous"}

\* f"Feedback from {feedback.reviewer_name}:\n\n{feedback.feedback}"
enriched_feedback(reviewer_name, feedback) == << "Feedback from", reviewer_name, feedback >>

NewRefine(content_id, feedback) ==
    [ pc |-> "called", content_id |-> content_id, feedback |-> feedback,
      base |-> NoResult, invoked |-> << >>, wrote |-> {},
      result |-> NoResult, http |-> 0,
      \* history: the stages the content had versions of when the call was made,
      \* the version written last for each, and whether the collaborator failed
      had |-> { st \in Stages : << content_id, st >> \in DOMAIN last_inserted },
      last |-> [ st \in { st \in Stages : << content_id, st >> \in DOMAIN last_inserted } |->
                    last_inserted[<< content_id, st >>] ],
      known |-> content_id \in DOMAIN content_collection,
      failed |-> {} ]

\* PublicationProcess.refine_content up to the await of the transformer: the
\* request after the call has either returned failed or awaits the transformer.
refine_content_begin(req, latest_transformed) ==
    IF latest_transformed = << >>
    THEN [req EXCEPT !.pc = "returned",
                     !.result = [status |-> "failed", error |-> "No transformed version found"]]
    ELSE IF VM_get_content(content_collection, req.content_id) = << >>
    THEN [req EXCEPT !.pc = "returned",
                     !.result = [status |-> "failed", error |-> "Original content not found"]]
    ELSE [req EXCEPT !.pc = "await",
                     !.base = latest_transformed,
                     !.invoked = Append(@, [name |-> "transform", input |-> latest_transformed.content])]

\* main.refine_content: what the endpoint answers for a returned result
http_status_of(result) == IF result.status = "failed" THEN 400 ELSE 200

\* POST /content/{content_id}/refine, from the request to the await of the
\* transformer (or to the 404 / 400 answer)
http_refine_content_start ==
    /\ impl = "process"
    /\ Len(refine) < MaxRefines
    /\ \E content_id \in RequestableIds, reviewer \in Reviewers, feedback \in Feedbacks :
        LET req == NewRefine(content_id, enriched_feedback(reviewer, feedback))
        IN  IF VM_get_content(content_collection, content_id) = << >>
            THEN refine' = Append(refine, [req EXCEPT !.pc = "returned", !.http = 404])
            ELSE \E latest \in VM_get_latest_version(version_collection, content_id, "transformed") :
                    LET after == refine_content_begin(req, latest)
                    IN  refine' = Append(refine,
                            IF after.pc = "returned"
                            THEN [after EXCEPT !.http = http_status_of(after.result)]
                            ELSE after)
    /\ UNCHANGED << impl, harvest, api, background_task, active_processes, q_values, rl_calls, web, clock, content_collection, version_collection,
                    metadata_collection, content_items, run, task, calls, last_inserted >>

\* POST /content/{content_id}/refine, from the transformer's return to the answer
http_refine_content_finish(r) ==
    /\ impl = "process"
    /\ r \in DOMAIN refine
    /\ refine[r].pc = "await"
    /\ \E outcome \in ModelOutcomes :
        LET req == refine[r]
            refine_result == GeminiTransformer_transform_content(outcome)
            refined_version_id == generate_version_id(req.content_id, "refined")
        IN  IF ~HasError(refine_result)
            THEN /\ version_collection' =
                        store_content_version(version_collection, content_collection, req.content_id,
                            refine_result.transformed_content, "refined",
                            [ model |-> refine_result.model,
                              based_on_version |-> req.base.id,
                              human_feedback |-> req.feedback ])
                 /\ RecordCall(<< req.content_id, "refined" >>, refined_version_id)
                 /\ refine' = [refine EXCEPT ![r] =
                        [@ EXCEPT !.pc = "returned",
                                  !.wrote = @ \cup {refined_version_id},
                                  !.result = [ status |-> "success",
                                               content_id |-> req.content_id,
                                               refined_version_id |-> refined_version_id ],
                                  !.http = 200 ]]
            ELSE /\ refine' = [refine EXCEPT ![r] =
                        [@ EXCEPT !.pc = "returned",
                                  !.failed = @ \cup {"transform"},
                                  !.result = [status |-> "failed", error |-> refine_result.error],
                                  !.http = 400 ]]
                 /\ UNCHANGED << version_collection, calls, last_inserted >>
    /\ UNCHANGED << impl, harvest, api, background_task, active_processes, q_values, rl_calls, web, clock, content_collection, metadata_collection,
                    content_items, run, task >>

\* PublisherWorkflow.iterative_refinement up to the await of the editor
iterative_refinement_start ==
    /\ impl = "workflow"
    /\ Len(refine) < MaxRefines
    /\ \E chapter_id \in RequestableIds, feedback \in Feedbacks :
       \E latest_edited \in CS_get_latest_version(version_collection, chapter_id, "edited") :
        LET req == NewRefine(chapter_id, feedback)
        IN  refine' = Append(refine,
                IF Raised(latest_edited)
                THEN [req EXCEPT !.pc = "raised", !.result = latest_edited]
                ELSE IF get_chapter(content_collection, chapter_id) = << >>
                THEN [req EXCEPT !.pc = "returned",
                                 !.result = [status |-> "failed", error |-> "Chapter not found"]]
                ELSE [req EXCEPT !.pc = "await",
                                 !.base = latest_edited,
                                 !.invoked = Append(@, [name |-> "editor", input |-> latest_edited.content])])
    /\ UNCHANGED << impl, harvest, api, background_task, active_processes, q_values, rl_calls, web, clock, content_collection, version_collection,
                    metadata_collection, content_items, run, task, calls, last_inserted >>

\* PublisherWorkflow.iterative_refinement from the editor's return to the end
iterative_refinement_finish(r) ==
    /\ impl = "workflow"
    /\ r \in DOMAIN refine
    /\ refine[r].pc = "await"
    /\ \E outcome \in ModelOutcomes :
        LET req == refine[r]
            editor_result == Agent_process("gpt-4", outcome)
            refined_version_id == chapter_version_id(version_collection, req.content_id, "refined")
        IN  IF Raised(editor_result)
            THEN /\ refine' = [refine EXCEPT ![r] =
                        [@ EXCEPT !.pc = "raised", !.failed = @ \cup {"editor"},
                                  !.result = editor_result]]
                 /\ UNCHANGED << version_collection, calls, last_inserted >>
            ELSE /\ version_collection' =
                        store_chapter_version(version_collection, content_collection, req.content_id,
                            editor_result.processed_content, "refined",
                            [ model |-> editor_result.model,
                              based_on_version |-> req.base.id,
                              human_feedback |-> req.feedback ])
                 /\ RecordCall(<< req.content_id, "refined" >>, refined_version_id)
                 /\ refine' = [refine EXCEPT ![r] =
                        [@ EXCEPT !.pc = "returned",
                                  !.wrote = @ \cup {refined_version_id},
                                  !.result = [ status |-> "success",
                                               chapter_id |-> req.content_id,
                                               refined_version_id |-> refined_version_id ]]]
    /\ UNCHANGED << impl, harvest, api, background_task, active_processes, q_values, rl_calls, web, clock, content_collection, metadata_collection,
                    content_items, run, task >>

RefineNext ==
    \/ http_refine_content_start
    \/ \E r \in 1..MaxRefines : http_refine_content_finish(r)
    \/ iterative_refinement_start
    \/ \E r \in 1..MaxRefines : iterative_refinement_finish(r)

Next ==
    \/ Tick
    \/ ProcessNext
    \/ WorkflowNext
    \/ gather_raises

\* One automatic run
Spec == Init /\ [][Next]_vars

\* One automatic run over at most RefineItems pages, and refine requests
InitRefine == Init /\ Len(web) <= RefineItems

NextRefine ==
    \/ Next
    \/ RefineNext

SpecRefine == InitRefine /\ [][NextRefine]_vars

(***************************************************************************)
(* main.py : POST /process/start, its background task, GET /process/{id}   *)
(***************************************************************************)
\* ProcessStart.max_chapters as a client can send it; 0 stands for 0 and for
\* None, which `process_request.max_chapters or 10` both turn into 10
RequestedMaxChapters == 0..NItems

\* POST /process/start: a PublicationProcess is constructed for its process_id
\* only, run_process_with_logging is handed to BackgroundTasks with that id,
\* and the id is returned.
start_process ==
    /\ impl = "process"
    /\ background_task.pc = "none"
    /\ run.pc = "init"
    /\ \E max_chapters \in RequestedMaxChapters :
          background_task' = [ pc |-> "scheduled",
                               process_id |-> << "process", clock, "uuid of start" >>,
                               max_chapters |-> IF max_chapters = 0 THEN 10 ELSE max_chapters ]
    /\ UNCHANGED << impl, harvest, api, active_processes, q_values, rl_calls, web, clock,
                    content_collection, version_collection, metadata_collection,
                    content_items, run, task, refine, calls, last_inserted >>

\* run_process_with_logging up to `await process.run_publication_process`:
\* the registry entry is created as running
run_process_with_logging_start ==
    /\ background_task.pc = "scheduled"
    /\ active_processes' =
            [ id \in (DOMAIN active_processes) \cup {background_task.process_id} |->
                IF id = background_task.process_id THEN [ status |-> "running" ]
                ELSE active_processes[id] ]
    /\ background_task' = [background_task EXCEPT !.pc = "running"]
    /\ UNCHANGED << impl, harvest, api, q_values, rl_calls, web, clock,
                    content_collection, version_collection, metadata_collection,
                    content_items, run, task, refine, calls, last_inserted >>

\* run_process_with_logging after the await: whatever the run returned is
\* filed as completed; only an exception is filed as failed
run_process_with_logging_end ==
    /\ background_task.pc = "running"
    /\ run.pc \in {"returned", "raised"}
    /\ active_processes' = [active_processes EXCEPT ![background_task.process_id] =
            IF run.pc = "returned"
            THEN [ status |-> "completed", result |-> run.result ]
            ELSE [ status |-> "failed", error |-> "Exception" ] ]
    /\ background_task' = [background_task EXCEPT !.pc = "ended"]
    /\ UNCHANGED << impl, harvest, api, q_values, rl_calls, web, clock,
                    content_collection, version_collection, metadata_collection,
                    content_items, run, task, refine, calls, last_inserted >>

\* VersionManager.get_project_metadata: None (<< >>) when the id is absent
get_project_metadata(mc, metadata_id) ==
    IF GetIds(mc, metadata_id) = << >> THEN << >>
    ELSE [ id |-> metadata_id, data |-> mc[metadata_id].document ]

\* GET /process/{process_id}: the answer
get_process_status(process_id) ==
    IF process_id \in DOMAIN active_processes
    THEN [ http |-> 200, process_id |-> process_id ] @@ active_processes[process_id]
    ELSE IF get_project_metadata(metadata_collection, process_id) = << >>
    THEN [ http |-> 404, detail |-> "Process not found" ]
    ELSE [ http |-> 200, process_id |-> process_id, status |-> "completed",
           data |-> get_project_metadata(metadata_collection, process_id).data ]

\* the server is stopped and started again once the background task is over:
\* the module is loaded anew with active_processes = {}, the collections are
\* on disk and stay
restart ==
    /\ background_task.pc = "ended"
    /\ \A i \in DOMAIN task : task[i].pc \in {"done", "raised"}
    /\ active_processes' = << >>
    /\ background_task' = [background_task EXCEPT !.pc = "restarted"]
    /\ UNCHANGED << impl, harvest, api, q_values, rl_calls, web, clock,
                    content_collection, version_collection, metadata_collection,
                    content_items, run, task, refine, calls, last_inserted >>

ApiNext ==
    \/ start_process
    \/ run_process_with_logging_start
    \/ run_process_with_logging_end
    \/ restart

NextApi ==
    \/ Tick
    \/ ProcessNext
    \/ gather_raises
    \/ ApiNext

InitApi == Init /\ impl = "process"

\* The API server: runs started through POST /process/start or by run_cli
SpecApi == InitApi /\ [][NextApi]_vars

(***************************************************************************)
(* utils/rl_search.py : RLSearchAlgorithm                                  *)
(*                                                                         *)
(* Values and rewards are fixed-point numbers: the integer n stands for    *)
(* n / Unit.  The instance is one constructed with learning_rate 0.5 and   *)
(* discount_factor 0.5, for which the float arithmetic of the update is    *)
(* exact over the runs modelled.                                           *)
(***************************************************************************)
\* 1.0
Unit == 4096
\* 1 / learning_rate and 1 / discount_factor
learning_rate_inverse == 2
discount_factor_inverse == 2

StateKeys == {"q1", "q2"}
Actions == {"a", "b", "c"}
Rewards == {0 - Unit, 0, Unit}

\* max(...) of a non-empty set of numbers
MaxOf(S) == CHOOSE m \in S : \A n \in S : n <= m

\* the table after `if state_key not in ...: ... = {}` and
\* `if action not in ...: ... = 0.0`
WithEntry(q, state_key, action) ==
    LET q1 == IF state_key \in DOMAIN q THEN q ELSE q @@ (state_key :> << >>)
    IN  IF action \in DOMAIN q1[state_key] THEN q1
        ELSE [q1 EXCEPT ![state_key] = @ @@ (action :> 0)]

\* _get_q_value: the value returned (the call also leaves WithEntry behind)
get_q_value(q, state_key, action) == WithEntry(q, state_key, action)[state_key][action]

\* _update_q_value: the table after the call
update_q_value(q, state_key, action, reward, next_state_key) ==
    LET q2  == WithEntry(q, state_key, action)
        old == q2[state_key][action]
        new_q ==
            IF /\ next_state_key /= None
               /\ next_state_key \in DOMAIN q2
               /\ DOMAIN q2[next_state_key] /= {}
            THEN LET max_next_q == MaxOf({ q2[next_state_key][a] : a \in DOMAIN q2[next_state_key] })
                 IN  old + ((reward + (max_next_q \div discount_factor_inverse) - old)
                                \div learning_rate_inverse)
            ELSE old + ((reward - old) \div learning_rate_inverse)
    IN  [q2 EXCEPT ![state_key][action] = new_q]

\* the keys of {action: ... for action in available_actions}, in insertion
\* order: the first occurrence of every action
RECURSIVE DictKeys(_)
DictKeys(available_actions) ==
    IF available_actions = << >> THEN << >>
    ELSE LET init == DictKeys(SubSeq(available_actions, 1, Len(available_actions) - 1))
             last == available_actions[Len(available_actions)]
         IN  IF \E i \in DOMAIN init : init[i] = last THEN init ELSE Append(init, last)

\* the table after select_action: the exploitation branch reads every
\* candidate through _get_q_value
RECURSIVE WithEntries(_, _, _)
WithEntries(q, state_key, available_actions) ==
    IF available_actions = << >> THEN q
    ELSE WithEntries(WithEntry(q, state_key, Head(available_actions)), state_key,
                     Tail(available_actions))

\* select_action: the values the call can return.  `explores` says whether
\* np.random.random() < exploration_rate came out true; with exploration_rate
\* 0 it never does.
select_action(q, state_key, available_actions, explores) ==
    IF available_actions = << >> THEN { None }
    ELSE IF explores THEN { available_actions[i] : i \in DOMAIN available_actions }
    ELSE LET keys == DictKeys(available_actions)
             state_q_values == [ i \in DOMAIN keys |-> get_q_value(q, state_key, keys[i]) ]
             best == MaxOf({ state_q_values[i] : i \in DOMAIN keys })
         IN  IF Cardinality({ state_q_values[i] : i \in DOMAIN keys }) = 1
             THEN { available_actions[i] : i \in DOMAIN available_actions }
             ELSE \* max(dict, key=dict.get): the first key holding the largest value
                  { keys[CHOOSE i \in DOMAIN keys :
                            /\ state_q_values[i] = best
                            /\ \A j \in 1..(i - 1) : state_q_values[j] /= best] }

Contents == {"q1", "zz"}
Candidates == [id : Actions, content : Contents]

\* every list of at most n elements of S
RECURSIVE ListsUpTo(_, _)
ListsUpTo(S, n) ==
    IF n = 0 THEN { << >> }
    ELSE LET shorter == ListsUpTo(S, n - 1)
         IN  shorter \cup { Append(l, x) : l \in { m \in shorter : Len(m) = n - 1 }, x \in S }

\* the reward_function arguments modelled: None for the default, and a
\* caller's function that finds every item relevant
RewardFunctions == {None, "every item"}

\* reward_function(item, query); the default counts the query's terms found
\* in the content, over the number of terms.  Queries are of one term and a
\* content holds it or does not.
reward_function_of(reward_function, item, query) ==
    IF reward_function = None
    THEN IF item.content = query THEN Unit ELSE 0
    ELSE Unit

\* search: the loop over the items, giving the table and the results list
RECURSIVE search_loop(_, _, _, _, _)
search_loop(q, state_key, items, reward_function, query) ==
    IF items = << >> THEN [q |-> q, results |-> << >>]
    ELSE LET before == search_loop(q, state_key, SubSeq(items, 1, Len(items) - 1),
                                   reward_function, query)
             item   == items[Len(items)]
             reward == reward_function_of(reward_function, item, query)
             q2     == update_q_value(before.q, state_key, item.id, reward, None)
         IN  [q |-> q2,
              results |-> Append(before.results,
                                 [id |-> item.id, content |-> item.content,
                                  rl_score |-> reward,
                                  q_value |-> get_q_value(q2, state_key, item.id)])]

\* sorted(results, key=q_value, reverse=True): equal keys keep their order
RECURSIVE sorted_reverse(_)
sorted_reverse(results) ==
    IF results = << >> THEN << >>
    ELSE LET best == MaxOf({ results[i].q_value : i \in DOMAIN results })
             i == CHOOSE k \in DOMAIN results :
                      /\ results[k].q_value = best
                      /\ \A j \in 1..(k - 1) : results[j].q_value /= best
         IN  << results[i] >> \o
             sorted_reverse(SubSeq(results, 1, i - 1) \o SubSeq(results, i + 1, Len(results)))

ContextKeys == {"chapter_id", "user", "version_type"}
ContextValues == {"c1", "c2"}
\* the modelled keys as sorted() orders them
SortedKeys == << "chapter_id", "user", "version_type" >>

\* context=None
NoContext == [none |-> TRUE, entries |-> << >>]

\* the dicts over the modelled keys, every insertion order of each
Contexts ==
    { [none |-> FALSE, entries |-> c] :
        c \in { l \in ListsUpTo(ContextKeys \X ContextValues, Cardinality(ContextKeys)) :
                  \A i, j \in DOMAIN l : l[i][1] = l[j][1] => i = j } }

\* context[key]
ContextValue(context, key) ==
    context.entries[CHOOSE i \in DOMAIN context.entries : context.entries[i][1] = key][2]

\* "|".join(state_parts)
RECURSIVE JoinParts(_)
JoinParts(state_parts) ==
    IF Len(state_parts) = 1 THEN state_parts[1]
    ELSE JoinParts(SubSeq(state_parts, 1, Len(state_parts) - 1))
            \o "|" \o state_parts[Len(state_parts)]

\* the loop of _get_state_key over the first n keys of a list of keys
RECURSIVE StateParts(_, _, _, _)
StateParts(query, context, keys, n) ==
    IF n = 0 THEN << query >>
    ELSE LET parts == StateParts(query, context, keys, n - 1)
             key   == keys[n]
         IN  IF key \in {"chapter_id", "version_type"}
             THEN Append(parts, key \o "=" \o ContextValue(context, key))
             ELSE parts

\* sorted(context.keys())
SortedContextKeys(context) ==
    SelectSeq(SortedKeys,
              LAMBDA key : \E i \in DOMAIN context.entries : context.entries[i][1] = key)

\* a _get_state_key that walks the keys in the order the dict holds them
get_state_key_in_dict_order(query, context) ==
    IF context.none THEN query
    ELSE JoinParts(StateParts(query, context,
                              [ i \in DOMAIN context.entries |-> context.entries[i][1] ],
                              Len(context.entries)))

\* _get_state_key
get_state_key(query, context) ==
    IF context.none THEN query
    ELSE JoinParts(StateParts(query, context, SortedContextKeys(context),
                              Len(SortedContextKeys(context))))

\* search with context None: the state key is the query
search(q, query, items, reward_function, explores) ==
    IF items = << >> THEN [q |-> q, results |-> << >>]
    ELSE LET state_key == get_state_key(query, NoContext)
             item_ids  == [ i \in DOMAIN items |-> items[i].id ]
             q1 == IF explores THEN q ELSE WithEntries(q, state_key, item_ids)
             looped == search_loop(q1, state_key, items, reward_function, query)
         IN  [q |-> looped.q, results |-> sorted_reverse(looped.results)]

RLUnchanged ==
    UNCHANGED << impl, harvest, web, clock, content_collection, version_collection,
                 metadata_collection, content_items, run, task, refine, calls,
                 last_inserted, api, background_task, active_processes >>

\* a task that is to call _update_q_value is created
rl_observe_create(state_key, action, reward, next_state_key) ==
    /\ Len(rl_calls) < MaxRLCalls
    /\ rl_calls' = Append(rl_calls,
           [op |-> "observe", pc |-> "pending", state_key |-> state_key,
            action |-> action, reward |-> reward, next_state_key |-> next_state_key])
    /\ UNCHANGED q_values
    /\ RLUnchanged

\* a task that writes what it computed from the table as it was before any
\* task ran
rl_observe_run_from_stale_read(k) ==
    /\ rl_calls[k].op = "observe"
    /\ rl_calls[k].pc = "pending"
    /\ q_values' =
          [WithEntry(q_values, rl_calls[k].state_key, rl_calls[k].action)
             EXCEPT ![rl_calls[k].state_key][rl_calls[k].action] =
                update_q_value(<< >>, rl_calls[k].state_key, rl_calls[k].action,
                               rl_calls[k].reward, rl_calls[k].next_state_key)
                    [rl_calls[k].state_key][rl_calls[k].action]]
    /\ rl_calls' = [rl_calls EXCEPT ![k] =
           [op |-> "observe", pc |-> "done", state_key |-> @.state_key,
            action |-> @.action, reward |-> @.reward,
            next_state_key |-> @.next_state_key,
            before |-> q_values, after |-> q_values']]
    /\ RLUnchanged

\* a created task runs: _update_q_value has no await, the call is one step
rl_observe_run(k) ==
    /\ rl_calls[k].op = "observe"
    /\ rl_calls[k].pc = "pending"
    /\ q_values' = update_q_value(q_values, rl_calls[k].state_key, rl_calls[k].action,
                                  rl_calls[k].reward, rl_calls[k].next_state_key)
    /\ rl_calls' = [rl_calls EXCEPT ![k] =
           [op |-> "observe", pc |-> "done", state_key |-> @.state_key,
            action |-> @.action, reward |-> @.reward,
            next_state_key |-> @.next_state_key,
            before |-> q_values, after |-> q_values']]
    /\ RLUnchanged

\* a call of select_action on an instance whose exploration_rate is 0
\* ("zero") or between 0 and 1 ("positive")
rl_select(state_key, available_actions, exploration_rate) ==
    /\ Len(rl_calls) < MaxRLCalls
    /\ \E explores \in (IF exploration_rate = "zero" THEN {FALSE} ELSE BOOLEAN) :
         \E returned \in select_action(q_values, state_key, available_actions, explores) :
            /\ q_values' = IF explores \/ available_actions = << >> THEN q_values
                           ELSE WithEntries(q_values, state_key, available_actions)
            /\ rl_calls' = Append(rl_calls,
                   [op |-> "select", pc |-> "done", state_key |-> state_key,
                    available_actions |-> available_actions,
                    exploration_rate |-> exploration_rate, explores |-> explores,
                    before |-> q_values, returned |-> returned,
                    possible |-> select_action(q_values, state_key, available_actions,
                                               explores)])
    /\ RLUnchanged

\* a call of search
rl_search(query, items, reward_function) ==
    /\ Len(rl_calls) < MaxRLCalls
    /\ \E explores \in BOOLEAN :
         LET out == search(q_values, query, items, reward_function, explores)
         IN  /\ q_values' = out.q
             /\ rl_calls' = Append(rl_calls,
                    [op |-> "search", pc |-> "done", query |-> query, items |-> items,
                     reward_function |-> reward_function, before |-> q_values,
                     after |-> out.q, results |-> out.results])
    /\ RLUnchanged

RLNext ==
    \/ \E state_key \in StateKeys, action \in Actions, reward \in Rewards,
          next_state_key \in StateKeys \cup {None} :
          rl_observe_create(state_key, action, reward, next_state_key)
    \/ \E k \in DOMAIN rl_calls : rl_observe_run(k)
    \/ \E state_key \in StateKeys, available_actions \in ListsUpTo(Actions, MaxCandidates),
          exploration_rate \in {"zero", "positive"} :
          rl_select(state_key, available_actions, exploration_rate)
    \/ \E query \in StateKeys, items \in ListsUpTo(Candidates, MaxRanked),
          reward_function \in RewardFunctions :
          rl_search(query, items, reward_function)

InitRL == Init /\ web = << >> /\ impl = "process"

SpecRL == InitRL /\ [][RLNext]_vars

(***************************************************************************)
(* utils/rl_search.py : _get_state_key called on its own                   *)
(*                                                                         *)
(* A context is None or a dict; the dict is the list of its (key, value)   *)
(* entries in insertion order.                                             *)
(***************************************************************************)
\* a call of _get_state_key
rl_get_state_key(query, context) ==
    /\ Len(rl_calls) < MaxRLCalls
    /\ rl_calls' = Append(rl_calls,
           [op |-> "state_key", pc |-> "done", query |-> query, context |-> context,
            returned |-> get_state_key(query, context)])
    /\ UNCHANGED q_values
    /\ RLUnchanged

KeyNext ==
    \E query \in StateKeys, context \in Contexts \cup {NoContext} :
       rl_get_state_key(query, context)

SpecKey == InitRL /\ [][KeyNext]_vars

(***************************************************************************)
(* scrapers/content_harvester.py, scrapers/wikisource_scraper.py :         *)
(* the harvester calls on their own                                        *)
(*                                                                         *)
(* The web is a set of pages, each with the link the harvester takes for   *)
(* the next chapter, or None.  The start locator is a page or "".          *)
(* MaxPages stands for max_pages, which no caller passes and which         *)
(* defaults to 10.                                                         *)
(***************************************************************************)
\* harvest_page / scrape_chapter, for what the loops read of it
harvest_page(links, url) == [ url |-> url, next_chapter_url |-> links[url] ]

HarvestUnchanged ==
    UNCHANGED << impl, web, clock, content_collection, version_collection,
                 metadata_collection, content_items, run, task, refine, calls,
                 last_inserted, api, background_task, active_processes,
                 q_values, rl_calls >>

\* `while current_url`: "" and None end the loop
Truthy(url) == url /= None /\ url /= ""

\* ContentHarvester.harvest_content_sequence, up to the loop
harvest_content_sequence_begin(start_url, links) ==
    /\ impl = "process"
    /\ harvest.pc = "idle"
    /\ harvest' = [ pc |-> "loop", links |-> links, current_url |-> start_url,
                    harvested_items |-> << >>, page_count |-> 0 ]
    /\ HarvestUnchanged

\* one test of `while current_url and page_count < max_pages` and, if it
\* passes, one turn of the loop
harvest_content_sequence_loop ==
    /\ impl = "process"
    /\ harvest.pc = "loop"
    /\ IF Truthy(harvest.current_url) /\ harvest.page_count < MaxPages
       THEN LET harvested == harvest_page(harvest.links, harvest.current_url)
            IN  harvest' = [harvest EXCEPT
                    !.harvested_items = Append(@, harvested),
                    !.current_url = harvested.next_chapter_url,
                    !.page_count = @ + 1]
       ELSE harvest' = [harvest EXCEPT !.pc = "returned"]
    /\ HarvestUnchanged

\* WikiSourceScraper.scrape_book, up to the loop
scrape_book_begin(start_url, links) ==
    /\ impl = "workflow"
    /\ harvest.pc = "idle"
    /\ harvest' = [ pc |-> "loop", links |-> links, current_url |-> start_url,
                    harvested_items |-> << >>, page_count |-> 0 ]
    /\ HarvestUnchanged

\* one test of `while current_url` and, if it passes, one turn of the loop.
\* The list is followed up to one page beyond MaxPages.
scrape_book_loop ==
    /\ impl = "workflow"
    /\ harvest.pc = "loop"
    /\ Len(harvest.harvested_items) <= MaxPages
    /\ IF Truthy(harvest.current_url)
       THEN LET chapter_data == harvest_page(harvest.links, harvest.current_url)
            IN  harvest' = [harvest EXCEPT
                    !.harvested_items = Append(@, chapter_data),
                    !.current_url = chapter_data.next_chapter_url]
       ELSE harvest' = [harvest EXCEPT !.pc = "returned"]
    /\ HarvestUnchanged

HarvestNext ==
    \/ \E start_url \in Urls \cup {""}, links \in [Urls -> Urls \cup {None}] :
          \/ harvest_content_sequence_begin(start_url, links)
          \/ scrape_book_begin(start_url, links)
    \/ harvest_content_sequence_loop
    \/ scrape_book_loop

InitHarvest == Init /\ web = << >>

SpecHarvest == InitHarvest /\ [][HarvestNext]_vars

(***************************************************************************)
(* The store called on its own: createSource and createVersion as a client *)
(* of VersionManager / ContentStore may call them, with any arguments      *)
(***************************************************************************)
\* Stage names and bodies a client passes to createVersion
ClientStages == {"transformed", "refined"}
ClientBodies == {"x", "y"}

\* the number of stored versions of a (content id, stage) pair
StoredCount(vc, content_id, version_type) ==
    Cardinality(Matching(vc, IF impl = "process" THEN "content_id" ELSE "chapter_id",
                         content_id, version_type))

\* store_source_content / store_original_chapter called by a client
\* time.time() as a client call on the store can read it: the second int()
\* keeps, and the first or the second half of that second, never earlier than
\* the reading of the call before
TimeReadings ==
    { r \in {clock} \X {0, 1} :
        \A k \in DOMAIN api :
            ("at" \in DOMAIN api[k] /\ api[k].at[1] = clock) => api[k].at[2] <= r[2] }

client_create_source ==
    /\ Len(api) < MaxCalls
    /\ \E content_data \in ItemPool, reading \in TimeReadings :
        LET id == IF impl = "process" THEN generate_content_fingerprint(content_data.content)
                  ELSE chapter_id_of(content_data)
        IN  /\ content_collection' =
                    IF impl = "process" THEN store_source_content(content_collection, content_data)
                    ELSE store_original_chapter(content_collection, content_data)
            /\ api' = Append(api, [ op |-> "createSource", item |-> content_data, id |-> id,
                                    at |-> reading ])
    /\ UNCHANGED << impl, harvest, background_task, active_processes, q_values, rl_calls, web, clock, version_collection,
                    metadata_collection, content_items, run, task, refine, calls, last_inserted >>

\* store_content_version / store_chapter_version called by a client.  Neither
\* looks whether the content id is stored: a missing source only leaves the
\* title and chapter_number of the new version None.
client_create_version ==
    /\ Len(api) < MaxCalls
    /\ \E content_id \in RequestableIds, version_type \in ClientStages, body \in ClientBodies :
        LET id == IF impl = "process" THEN generate_version_id(content_id, version_type)
                  ELSE chapter_version_id(version_collection, content_id, version_type)
            after == IF impl = "process"
                     THEN store_content_version(version_collection, content_collection,
                                                content_id, body, version_type, << >>)
                     ELSE store_chapter_version(version_collection, content_collection,
                                                content_id, body, version_type, << >>)
        IN  /\ version_collection' = after
            /\ RecordCall(<< content_id, version_type >>, id)
            /\ api' = Append(api,
                    [ op |-> "createVersion", content_id |-> content_id,
                      version_type |-> version_type, body |-> body, id |-> id,
                      returned |-> "id",
                      known |-> content_id \in DOMAIN content_collection,
                      before |-> StoredCount(version_collection, content_id, version_type),
                      earlier |-> IF << content_id, version_type >> \in DOMAIN calls
                                  THEN calls[<< content_id, version_type >>] ELSE 0,
                      changed |-> after /= version_collection,
                      numbered |-> "version_number" \in DOMAIN after[id].metadata,
                      version_number |-> IF "version_number" \in DOMAIN after[id].metadata
                                         THEN after[id].metadata.version_number ELSE 0 ])
    /\ UNCHANGED << impl, harvest, background_task, active_processes, q_values, rl_calls, web, clock, content_collection,
                    metadata_collection, content_items, run, task, refine >>

StoreNext ==
    \/ Tick
    \/ client_create_source
    \/ client_create_version

InitStore == Init /\ web = << >>

\* The store under the calls of a client
SpecStore == InitStore /\ [][StoreNext]_vars

(***************************************************************************)
(* What the claims speak of                                                *)
(***************************************************************************)
\* the metadata key a version carries its content id under
IdKey == IF impl = "process" THEN "content_id" ELSE "chapter_id"

\* the stored Versions of a (content id, stage) pair
VersionsOf(pair) == Matching(version_collection, IdKey, pair[1], pair[2])

\* getLatestVersion(contentId, stageName): the ids the call can return
LatestIds(pair) ==
    IF impl = "process"
    THEN { r.id : r \in { q \in VM_get_latest_version(version_collection, pair[1], pair[2]) : q /= << >> } }
    ELSE { r.id : r \in { q \in CS_get_latest_version(version_collection, pair[1], pair[2]) : ~Raised(q) } }

\* C1: createVersion only ever appends: after k version writes for a
\* (content id, stage) pair have returned, the store holds k Versions of
\* that pair.
C1_AppendOnly ==
    \A pair \in DOMAIN calls : Cardinality(VersionsOf(pair)) = calls[pair]

\* C2: getLatestVersion of a (content id, stage) pair returns the Version
\* that was written last for the pair, never an earlier one.
C2_LatestIsLastInserted ==
    \A pair \in DOMAIN last_inserted : LatestIds(pair) = { last_inserted[pair] }

\* the names the two orchestrators give the first two collaborators
TransformStage == IF impl = "process" THEN "transform" ELSE "writer"
ReviewStage == IF impl = "process" THEN "evaluate" ELSE "reviewer"

\* the stage name inside a version id
StageOfId(id) == IF impl = "process" THEN id[2] ELSE id[3]

\* a task's first version and the body its first collaborator returned
FirstVersionId(t) == IF impl = "process" THEN t.transform_version_id ELSE t.writer_version_id
FirstBody(t) ==
    IF impl = "process" THEN t.transform_result.transformed_content
    ELSE t.writer_result.processed_content

RunEnded == run.pc \in {"returned", "raised"}
ItemFailed(res) == res /= NoResult /\ "status" \in DOMAIN res /\ res.status = "failed"
ItemSucceeded(res) == res /= NoResult /\ "status" \in DOMAIN res /\ res.status = "success"

\* C3: when the run has ended and the only collaborator failures in it were
\* transform failures, the run returned success with one result per harvested
\* item, the items whose transform failed are marked failed, and the others
\* are marked success with their versions stored.
C3_FailureIsolated ==
    ( /\ RunEnded
      /\ \E i \in DOMAIN task : TransformStage \in task[i].failed
      /\ \A i \in DOMAIN task : task[i].failed \subseteq {TransformStage} )
    => /\ run.pc = "returned"
       /\ run.result.status = "success"
       /\ Len(run.result.results) = Len(content_items)
       /\ \A i \in DOMAIN task :
            IF task[i].failed /= {}
            THEN ItemFailed(run.result.results[i])
            ELSE /\ ItemSucceeded(run.result.results[i])
                 /\ task[i].wrote /= {}
                 /\ task[i].wrote \subseteq DOMAIN version_collection

\* C4: in every reachable state and for every item task: at most one
\* collaborator call is in flight; the collaborators were invoked in the order
\* transform, review/evaluation, edit; the source was stored before the
\* transform was invoked on it; the first version was stored before the
\* review/evaluation was invoked, and on the body the transform returned; the
\* edit was invoked only after the review had returned and its version was
\* stored.
C4_StagesInOrder ==
    \A i \in DOMAIN task :
        LET t == task[i]
            n == Len(t.invoked)
        IN  /\ Cardinality(t.inflight) <= 1
            /\ n <= (IF impl = "process" THEN 2 ELSE 3)
            /\ n >= 1 => /\ t.invoked[1].name = TransformStage
                         /\ (IF impl = "process" THEN t.content_id ELSE t.chapter_id)
                                \in DOMAIN content_collection
                         /\ t.invoked[1].input = t.item.content
            /\ n >= 2 => /\ t.invoked[2].name = ReviewStage
                         /\ TransformStage \notin t.inflight
                         /\ FirstVersionId(t) \in t.wrote
                         /\ FirstVersionId(t) \in DOMAIN version_collection
                         /\ t.invoked[2].input = FirstBody(t)
            /\ n >= 3 => /\ t.invoked[3].name = "editor"
                         /\ ReviewStage \notin t.inflight
                         /\ t.reviewer_result /= NoResult
                         /\ t.reviewer_version_id \in t.wrote
                         /\ t.reviewer_version_id \in DOMAIN version_collection
                         /\ t.invoked[3].input = FirstBody(t)

\* C4 happens: two item tasks run interleaved, one awaits its last
\* collaborator while the other still awaits its first.
C4_Witness ==
    /\ Len(task) = 2
    /\ \E i, j \in DOMAIN task :
        /\ i /= j
        /\ task[i].inflight = {IF impl = "process" THEN "evaluate" ELSE "editor"}
        /\ task[j].inflight = {TransformStage}

\* C5: an item whose transform collaborator failed has a result marked failed
\* that carries an error message, had no later collaborator invoked, and
\* wrote no version.
C5_TransformFailureItemFatal ==
    \A i \in DOMAIN task :
        TransformStage \in task[i].failed
        => /\ ItemFailed(task[i].result)
           /\ "error" \in DOMAIN task[i].result
           /\ Len(task[i].invoked) = 1
           /\ task[i].wrote = {}

\* C6: an item whose review/evaluation collaborator failed after a successful
\* transform wrote no reviewed version, is not dropped, and ends as success.
C6_ReviewFailureDegrades ==
    \A i \in DOMAIN task :
        ReviewStage \in task[i].failed
        => /\ \A id \in task[i].wrote : StageOfId(id) \notin {"evaluation", "reviewed"}
           /\ task[i].pc /= "raised"
           /\ task[i].pc = "done" => ItemSucceeded(task[i].result)

\* the ContentItem id createSource returned to a task, and what getContent
\* answers for it
SourceId(t) == IF impl = "process" THEN t.content_id ELSE t.chapter_id
GetContent(c) ==
    IF impl = "process" THEN VM_get_content(content_collection, c)
    ELSE get_chapter(content_collection, c)

\* C10: once createSource has returned id c to an item task, getContent(c)
\* keeps answering the content, title and sequence number of that task's
\* harvested item, and no two item tasks hold the same ContentItem id.
C10_ContentItemImmutable ==
    /\ \A i \in DOMAIN task :
        task[i].pc /= "ready"
        => LET got == GetContent(SourceId(task[i]))
           IN  /\ got /= << >>
               /\ got.content = task[i].item.content
               /\ got.metadata.title = task[i].item.title
               /\ got.metadata.chapter_number = task[i].item.chapter_number
    /\ \A i, j \in DOMAIN task :
        (i /= j /\ task[i].pc /= "ready" /\ task[j].pc /= "ready")
        => SourceId(task[i]) /= SourceId(task[j])

\* the stages whose latest version refine may take as its base: edited, and
\* failing that the transform stage of either orchestrator
BaseStages == {"edited", "transformed", "rewritten"}

\* the base the documented rule picks for a request, from what the content
\* had when the request was made
ExpectedBase(req) ==
    IF "edited" \in req.had THEN req.last["edited"]
    ELSE IF "transformed" \in req.had THEN req.last["transformed"]
    ELSE req.last["rewritten"]

\* C7: a refine request for stored content that has neither an edited nor a
\* transformed version returns the failed result (answered with HTTP 400 by
\* the endpoint), having invoked no collaborator and stored no version.
C7_NoBaseVersion ==
    \A r \in DOMAIN refine :
        (refine[r].known /\ refine[r].had \cap BaseStages = {})
        => /\ refine[r].pc = "returned"
           /\ refine[r].result.status = "failed"
           /\ impl = "process" => refine[r].http = 400
           /\ refine[r].invoked = << >>
           /\ refine[r].wrote = {}

\* C8: a refine request for stored content that has an edited or a transformed
\* version, and whose collaborator does not fail, ends with success; its base
\* is the latest edited version if there is one and the latest transformed
\* one otherwise; the refined version it stored names that base and carries
\* the feedback the call was given.
C8_RefineFromLatestBase ==
    \A r \in DOMAIN refine :
        ( /\ refine[r].known
          /\ refine[r].had \cap BaseStages /= {}
          /\ refine[r].failed = {}
          /\ refine[r].pc \in {"returned", "raised"} )
        => /\ refine[r].pc = "returned"
           /\ refine[r].result.status = "success"
           /\ refine[r].base.id = ExpectedBase(refine[r])
           /\ \E id \in refine[r].wrote :
                /\ id \in DOMAIN version_collection
                /\ version_collection[id].metadata.version_type = "refined"
                /\ version_collection[id].metadata.based_on_version = ExpectedBase(refine[r])
                /\ version_collection[id].metadata.human_feedback = refine[r].feedback

\* basedOnVersionId of a stored version, NoId when it has none
BasedOn(v) ==
    IF "based_on_version" \in DOMAIN version_collection[v].metadata
    THEN version_collection[v].metadata.based_on_version
    ELSE NoId

\* the number of stored versions of v's content id
VersionCountOf(v) ==
    Cardinality({ w \in DOMAIN version_collection :
                    version_collection[w].metadata[IdKey] = version_collection[v].metadata[IdKey] })

\* following basedOnVersionId from v reaches, within n hops, a stored version
\* that has none
RECURSIVE ReachesRoot(_, _)
ReachesRoot(v, n) ==
    IF v \notin DOMAIN version_collection THEN FALSE
    ELSE IF BasedOn(v) = NoId THEN TRUE
    ELSE IF n = 0 THEN FALSE
    ELSE ReachesRoot(BasedOn(v), n - 1)

\* C9: from every stored version, following basedOnVersionId reaches a version
\* without one within as many hops as the content id has versions.
C9_LineageAcyclic ==
    \A v \in DOMAIN version_collection : ReachesRoot(v, VersionCountOf(v))

\* C9 happens: two refine requests have returned success and two refined
\* versions that name their base are stored.
C9_Witness ==
    /\ Len(refine) = 2
    /\ \A r \in DOMAIN refine : refine[r].pc = "returned" /\ refine[r].wrote /= {}
    /\ Cardinality({ v \in DOMAIN version_collection : BasedOn(v) /= NoId }) >= 2

\* the calls of one operation in the client's log
ApiCalls(op) == { k \in DOMAIN api : api[k].op = op }

\* C11: for every createSource call a client made, getContent of the id it
\* returned answers the raw content, title, sequence number and origin
\* locator passed to that call, whatever store calls came after it.
C11_SourceRoundTrip ==
    \A k \in ApiCalls("createSource") :
        LET got == GetContent(api[k].id)
            locator == IF impl = "process" THEN "source_url" ELSE "url"
        IN  /\ got /= << >>
            /\ got.content = api[k].item.content
            /\ got.metadata.title = api[k].item.title
            /\ got.metadata.chapter_number = api[k].item.chapter_number
            /\ got.metadata[locator] = api[k].item.url

\* C12: a createVersion call for a content id that is not stored returns
\* UnknownContent and leaves the version collection as it was, and every
\* stored version names a stored ContentItem.
C12_UnknownContentRejected ==
    /\ \A k \in ApiCalls("createVersion") :
        ~api[k].known => (api[k].returned = "UnknownContent" /\ ~api[k].changed)
    /\ \A v \in DOMAIN version_collection :
        version_collection[v].metadata[IdKey] \in DOMAIN content_collection

\* C13: every createVersion call recorded on its version an ordinal equal to
\* the number of versions the pair had stored, plus one; so the k-th call for
\* a pair recorded k, and no two calls for a pair returned the same id.
C13_StageOrdinal ==
    /\ \A k \in ApiCalls("createVersion") :
        /\ api[k].numbered
        /\ api[k].version_number = api[k].before + 1
        /\ api[k].version_number = api[k].earlier + 1
    /\ \A k, l \in ApiCalls("createVersion") :
        ( /\ k /= l
          /\ api[k].content_id = api[l].content_id
          /\ api[k].version_type = api[l].version_type )
        => api[k].id /= api[l].id

\* the ContentItem id createSource gives a harvested item, but for the clock
SameSource(id, item) ==
    IF impl = "process" THEN id[3] = ContentHash(item.content)
    ELSE id = chapter_id_of(item)

\* an item result that reports success and carries the ids of the versions
\* the item's task wrote
SuccessWithVersionIds(res, t) ==
    IF impl = "process"
    THEN /\ ItemSucceeded(res)
         /\ res.transform_version_id \in t.wrote
         /\ res.eval_version_id \in t.wrote \cup {NoId}
    ELSE /\ ~ItemFailed(res)
         /\ {res.writer_version_id, res.reviewer_version_id, res.editor_version_id} = t.wrote

\* C14: the record a run over a non-empty harvest returned has status success
\* and one item result per harvested item, the i-th result being the outcome
\* of the i-th harvested item: a failure with a message, or a success with the
\* ids of the versions written for that item.
C14_RecordAggregates ==
    (run.pc = "returned" /\ content_items /= << >>)
    => /\ run.result.status = "success"
       /\ Len(run.result.results) = Len(content_items)
       /\ \A i \in DOMAIN content_items :
            LET res == run.result.results[i]
            IN  /\ SameSource(IF impl = "process" THEN res.content_id ELSE res.chapter_id,
                              content_items[i])
                /\ \/ ItemFailed(res) /\ "error" \in DOMAIN res /\ task[i].failed /= {}
                   \/ SuccessWithVersionIds(res, task[i])

\* C14 happens: a run over two different pages has returned its record, the
\* first page's item failed and the second page's item succeeded.
C14_Witness ==
    /\ run.pc = "returned"
    /\ Len(content_items) = 2
    /\ content_items[1].content /= content_items[2].content
    /\ ItemFailed(run.result.results[1])
    /\ ItemSucceeded(run.result.results[2])

\* C15: once a run whose harvest came back empty has passed the harvest, it
\* has returned status failed with an error message, no item task exists (so
\* no collaborator was invoked), and no ContentItem, Version or run record
\* was stored.
C15_EmptyHarvestAborts ==
    (run.pc /= "init" /\ web = << >>)
    => /\ run.pc = "returned"
       /\ run.result.status = "failed"
       /\ "error" \in DOMAIN run.result
       /\ task = << >>
       /\ content_collection = EmptyCollection
       /\ version_collection = EmptyCollection
       /\ metadata_collection = EmptyCollection

\* C15 happens: the harvester returned nothing and the run has returned.
C15_Witness ==
    /\ web = << >>
    /\ content_items = << >>
    /\ run.pc = "returned"

\* C16: once the background task of a run that raised, or that returned status
\* failed, has ended, GET /process/{process_id} answers status failed with an
\* error message.
C16_RunFailureReported ==
    ( /\ background_task.pc = "ended"
      /\ \/ run.pc = "raised"
         \/ run.pc = "returned" /\ run.result.status = "failed" )
    => LET answer == get_process_status(background_task.process_id)
       IN  /\ answer.http = 200
           /\ answer.status = "failed"
           /\ "error" \in DOMAIN answer

\* the table after the first n of the logged observers have run one after
\* the other on an empty table
RECURSIVE SequentialObservers(_)
SequentialObservers(n) ==
    IF n = 0 THEN << >>
    ELSE update_q_value(SequentialObservers(n - 1), rl_calls[n].state_key,
                        rl_calls[n].action, rl_calls[n].reward,
                        rl_calls[n].next_state_key)

\* the log holds nothing but tasks observing one (state key, action) pair with
\* one reward
SameObservers ==
    /\ rl_calls /= << >>
    /\ \A k \in DOMAIN rl_calls :
          /\ rl_calls[k].op = "observe"
          /\ rl_calls[k].state_key = rl_calls[1].state_key
          /\ rl_calls[k].action = rl_calls[1].action
          /\ rl_calls[k].reward = rl_calls[1].reward
          /\ rl_calls[k].next_state_key = rl_calls[1].next_state_key

\* C17: when N tasks created side by side observe the same (state key, action)
\* pair with the same reward, then once all of them have run, in whatever
\* order, the table is the one N observations made one after the other leave:
\* no update is lost.
C17_NoLostUpdate ==
    ( SameObservers /\ \A k \in DOMAIN rl_calls : rl_calls[k].pc = "done" )
    => q_values = SequentialObservers(Len(rl_calls))

\* two tasks were pending together, the one created last ran first, and the
\* reward moved the value both times
C17_Witness ==
    /\ SameObservers
    /\ Len(rl_calls) >= 2
    /\ \A k \in DOMAIN rl_calls : rl_calls[k].pc = "done"
    /\ rl_calls[1].reward = Unit
    /\ rl_calls[1].before /= << >>
    /\ rl_calls[2].before = << >>

\* the value stored for a pair, 0 for a pair never seen
StoredValue(q, state_key, action) ==
    IF state_key \in DOMAIN q /\ action \in DOMAIN q[state_key]
    THEN q[state_key][action] ELSE 0

\* the pairs a table holds
StoredPairs(q) == { <<s, a>> \in StateKeys \X Actions : s \in DOMAIN q /\ a \in DOMAIN q[s] }

\* the largest value stored under a state key when the call is made, 0 when
\* the key is None or nothing is stored under it
MaxNextValue(q, next_state_key) ==
    IF next_state_key = None \/ next_state_key \notin DOMAIN q
       \/ DOMAIN q[next_state_key] = {}
    THEN 0
    ELSE MaxOf({ q[next_state_key][a] : a \in DOMAIN q[next_state_key] })

\* C20: an observation replaces the value of its pair by
\* old + alpha * (reward + gamma * maxNext - old), with old 0 for a pair never
\* seen and maxNext the largest value stored under the next state key when
\* the call is made (0 for None or a key without values), and leaves the value
\* of every other pair as it was.
C20_TDUpdate ==
    \A k \in DOMAIN rl_calls :
       ( rl_calls[k].op = "observe" /\ rl_calls[k].pc = "done" )
       => LET c   == rl_calls[k]
              old == StoredValue(c.before, c.state_key, c.action)
              maxNext == MaxNextValue(c.before, c.next_state_key)
          IN  /\ StoredValue(c.after, c.state_key, c.action)
                    = old + ((c.reward + (maxNext \div discount_factor_inverse) - old)
                                 \div learning_rate_inverse)
              /\ \A p \in (StoredPairs(c.before) \cup StoredPairs(c.after))
                            \ { <<c.state_key, c.action>> } :
                    /\ p \in StoredPairs(c.before)
                    /\ p \in StoredPairs(c.after)
                    /\ c.after[p[1]][p[2]] = c.before[p[1]][p[2]]

\* the candidates of a select_action call whose stored value is the largest
\* among the candidates
BestCandidates(c) ==
    LET given == { c.available_actions[i] : i \in DOMAIN c.available_actions }
    IN  { a \in given : \A b \in given :
            StoredValue(c.before, c.state_key, b) <= StoredValue(c.before, c.state_key, a) }

\* C18: with exploration rate 0 and a non-empty candidate list, select_action
\* returns a candidate whose value is the largest among the candidates, and
\* when several candidates share that largest value, whether all of them or
\* only some, each of the tied candidates is a possible result: the position
\* in the list decides nothing.
C18_ArgmaxWithFairTies ==
    \A k \in DOMAIN rl_calls :
       ( /\ rl_calls[k].op = "select"
         /\ rl_calls[k].exploration_rate = "zero"
         /\ rl_calls[k].available_actions /= << >> )
       => /\ rl_calls[k].returned \in BestCandidates(rl_calls[k])
          /\ rl_calls[k].possible = BestCandidates(rl_calls[k])

\* the table after one observation per item, in the order of the list, each
\* with the reward the reward function gives the item
RECURSIVE ObservedEach(_, _, _, _)
ObservedEach(q, query, items, reward_function) ==
    IF items = << >> THEN q
    ELSE update_q_value(
             ObservedEach(q, query, SubSeq(items, 1, Len(items) - 1), reward_function),
             query, items[Len(items)].id,
             reward_function_of(reward_function, items[Len(items)], query), None)

\* the ways of putting the positions 1..n in an order
Orderings(n) == { f \in [1..n -> 1..n] : \A i, j \in 1..n : f[i] = f[j] => i = j }

\* C19: search returns every item it was given exactly once, has observed
\* each item once with the reward of the reward function, and orders the items
\* by non-increasing value as the table holds it after all the observations of
\* the call; items of equal value keep the order they were given in, also when
\* two items carry one id.
C19_RankedStably ==
    \A k \in DOMAIN rl_calls :
       rl_calls[k].op = "search"
       => LET c == rl_calls[k]
              n == Len(c.items)
              value(i) == StoredValue(c.after, c.query, c.items[i].id)
          IN  /\ Len(c.results) = n
              /\ c.after = ObservedEach(c.before, c.query, c.items, c.reward_function)
              /\ \E f \in Orderings(n) :
                    /\ \A i \in 1..n :
                          /\ c.results[i].id = c.items[f[i]].id
                          /\ c.results[i].content = c.items[f[i]].content
                          /\ c.results[i].rl_score
                                = reward_function_of(c.reward_function, c.items[f[i]], c.query)
                    /\ \A i, j \in 1..n :
                          i < j => \/ value(f[i]) > value(f[j])
                                   \/ value(f[i]) = value(f[j]) /\ f[i] < f[j]

\* the entries of a context under the keys _get_state_key reads; None has none
ReadEntries(context) ==
    { context.entries[i] : i \in { j \in DOMAIN context.entries :
                                      context.entries[j][1] \in {"chapter_id", "version_type"} } }

\* C21: the state key depends only on the query and on the context entries
\* under chapter_id and version_type: two calls with one query whose contexts
\* agree on those entries return the same key, whatever the other entries and
\* whatever the order of the keys, and no context counts as an empty one.
C21_StateKeyReadsAllowList ==
    \A k, l \in DOMAIN rl_calls :
       ( /\ rl_calls[k].op = "state_key"
         /\ rl_calls[l].op = "state_key"
         /\ rl_calls[k].query = rl_calls[l].query
         /\ ReadEntries(rl_calls[k].context) = ReadEntries(rl_calls[l].context) )
       => rl_calls[k].returned = rl_calls[l].returned

\* two calls whose contexts hold both read keys in opposite orders, one of
\* them with another entry besides
C21_Witness ==
    /\ Len(rl_calls) = 2
    /\ rl_calls[1].op = "state_key"
    /\ rl_calls[2].op = "state_key"
    /\ rl_calls[1].query = rl_calls[2].query
    /\ rl_calls[1].context /= rl_calls[2].context
    /\ Cardinality(ReadEntries(rl_calls[1].context)) = 2
    /\ ReadEntries(rl_calls[1].context) = ReadEntries(rl_calls[2].context)
    /\ rl_calls[1].context.entries[1][1] = "version_type"
    /\ rl_calls[2].context.entries[1][1] = "chapter_id"
    /\ Len(rl_calls[2].context.entries) = 3
    /\ rl_calls[1].returned = rl_calls[1].query \o "|chapter_id="
            \o ContextValue(rl_calls[1].context, "chapter_id") \o "|version_type="
            \o ContextValue(rl_calls[1].context, "version_type")

\* a call without a context and a call with the empty one
C21_WitnessNone ==
    /\ Len(rl_calls) = 2
    /\ rl_calls[1].context = NoContext
    /\ rl_calls[2].context = [none |-> FALSE, entries |-> << >>]
    /\ rl_calls[1].query = rl_calls[2].query

\* the process id POST /process/start has answered with
StartedId == background_task.process_id

\* C22: the process id returned by POST /process/start names the run
\* everywhere: the record of the run is persisted under that id, so once the
\* run has completed and the id is no longer in the registry,
\* GET /process/{id} answers from the persisted record and not with 404.
C22_StartedIdIsPersistedId ==
    ( /\ background_task.pc \in {"ended", "restarted"}
      /\ run.pc = "returned"
      /\ run.result.status = "success" )
    => /\ run.id = StartedId
       /\ get_project_metadata(metadata_collection, StartedId) /= << >>
       /\ background_task.pc = "restarted"
             => /\ get_process_status(StartedId).http = 200
                /\ get_process_status(StartedId).status = "completed"

\* C23: every run leaves one persisted record once it is terminal: after a
\* run has completed, or has failed by an empty harvest or by an exception,
\* the metadata store holds a record under the run's process id.
C23_RecordPersistedOnceTerminal ==
    RunEnded => GetIds(metadata_collection, run.id) /= << >>

\* C24: a harvest is bounded: the list the harvester builds never holds more
\* than max_pages items, whatever the start locator and the chain of next
\* links, a chain that comes back on itself included.
C24_HarvestBounded ==
    Len(harvest.harvested_items) <= MaxPages

\* C25: storing a source is not idempotent over time: two calls made at
\* different clock readings return two different ids and leave two stored
\* ContentItems, also when both submit the same content.
C25_FreshIdPerReading ==
    \A k, l \in ApiCalls("createSource") :
        ( k < l /\ api[k].at /= api[l].at )
        => /\ api[k].id /= api[l].id
           /\ GetContent(api[k].id) /= << >>
           /\ GetContent(api[l].id) /= << >>

\* C26: from the moment POST /process/start has answered with a process id,
\* GET /process/{id} for that id never answers 404, the time before the
\* background task has begun to run included.
C26_StartedIdNeverUnknown ==
    background_task.pc /= "none" => get_process_status(StartedId).http /= 404

\* the positions of the item results that ended as success
Succeeded(results) == { i \in DOMAIN results : ItemSucceeded(results[i]) }

\* the sum of len(content) over the harvested items at the given positions
RECURSIVE CharactersOf(_)
CharactersOf(positions) ==
    IF positions = {} THEN 0
    ELSE LET i == CHOOSE j \in positions : TRUE
         IN  StrLen(content_items[i].content) + CharactersOf(positions \ {i})

\* C27: when a run returns its metrics, chapters_processed is the number of
\* item results with status success and total_characters is the sum of the
\* raw-content lengths of exactly those items, however the item tasks were
\* interleaved: no increment is lost and a failed item adds nothing.
C27_MetricsMatchResults ==
    ( run.pc = "returned" /\ "metrics" \in DOMAIN run.result )
    => /\ run.result.metrics.chapters_processed = Cardinality(Succeeded(run.result.results))
       /\ run.result.metrics.total_characters = CharactersOf(Succeeded(run.result.results))

\* a run over two pages with text has returned, both items succeeded
C27_Witness ==
    /\ run.pc = "returned"
    /\ "metrics" \in DOMAIN run.result
    /\ Len(run.result.results) = 2
    /\ Succeeded(run.result.results) = {1, 2}
    /\ run.result.metrics.total_characters = 2

\* a run has returned with one item failed and one succeeded
C27_WitnessFailedItem ==
    /\ run.pc = "returned"
    /\ "metrics" \in DOMAIN run.result
    /\ Len(run.result.results) = 2
    /\ Cardinality(Succeeded(run.result.results)) = 1
    /\ run.result.metrics.total_characters = 1

\* every item task of the run has reached its end: a result or an exception
AllTasksTerminal == \A i \in DOMAIN task : task[i].pc \in {"done", "raised"}

ResolvesTo(id, content_id, stage) ==
    /\ id \in DOMAIN version_collection
    /\ version_collection[id].metadata[IdKey] = content_id
    /\ version_collection[id].metadata.version_type = stage

\* C29: when a run has returned, every version id a successful item result
\* reports resolves to a stored version of that item's content id and of the
\* stage the result names, and the body of the version is what the
\* collaborator produced for that item (compared for the outputs the task
\* keeps: the transformer's, the writer's and the reviewer's), also for items
\* of one content or one sequence number.
C29_ReportedVersionsResolve ==
    ( run.pc = "returned" /\ run.result.status = "success" )
    => \A i \in DOMAIN task :
          LET res == task[i].result
          IN  IF impl = "process"
              THEN ItemSucceeded(res)
                   => /\ ResolvesTo(res.transform_version_id, res.content_id, "transformed")
                      /\ version_collection[res.transform_version_id].document
                            = task[i].transform_result.transformed_content
                      /\ res.eval_version_id /= NoId
                            => ResolvesTo(res.eval_version_id, res.content_id, "evaluation")
              ELSE /\ ResolvesTo(res.writer_version_id, res.chapter_id, "rewritten")
                   /\ version_collection[res.writer_version_id].document
                         = task[i].writer_result.processed_content
                   /\ ResolvesTo(res.reviewer_version_id, res.chapter_id, "reviewed")
                   /\ version_collection[res.reviewer_version_id].document
                         = task[i].reviewer_result.processed_content
                   /\ ResolvesTo(res.editor_version_id, res.chapter_id, "edited")

\* C30: the max_chapters sent to POST /process/start bounds the run: a run
\* started with max_chapters = m harvests at most m items and starts at most
\* m item tasks.
C30_MaxChaptersBoundsRun ==
    background_task.pc /= "none"
    => /\ Len(content_items) <= background_task.max_chapters
       /\ Len(task) <= background_task.max_chapters

====
